---- MODULE Spec2Model ----
(***************************************************************************)
(* Block-space allocation state machine of the block proposer              *)
(* (apps/src/lib/node/ledger/shell/block_space_alloc/states.rs).           *)
(*                                                                         *)
(* One allocator chain is modelled: the live allocator value (its phase,   *)
(* its mode, its space tracker), whether it is wrapped in a                *)
(* FusedBlockSpaceAllocator, and the wrapper's ran_out_of_space flag.      *)
(* The per-phase TryAlloc / NextStateImpl implementations and the tracker  *)
(* live in the sub-modules decrypted_txs, protocol_txs, encrypted_txs,     *)
(* remaining_txs and tracker, which states.rs only declares; they are      *)
(* modelled from the specification document (sections 3 and 4).            *)
(*                                                                         *)
(* A second specification, ShellSpec, models the ABCI message loop of the  *)
(* node shell (ledger/src/bin/anoma-node/shell/mod.rs): the channel from   *)
(* the consensus thread, Shell::run, its handlers and Shell::apply_tx.     *)
(***************************************************************************)
EXTENDS Integers, Sequences, FiniteSets, TLC

\* ------------------------------------------------------------- bounds
\* Largest configured per-phase budget drawn at construction.
MaxBudget == 2
\* Largest candidate transaction length (in bytes) offered to try_alloc.
MaxTxLen == 3
\* Largest number of ABCI messages the consensus thread sends to the shell.
MaxMsgs == 3

\* ------------------------------------------------------------ phases
BuildingDecryptedTxBatch == "BuildingDecryptedTxBatch"
BuildingProtocolTxBatch == "BuildingProtocolTxBatch"
BuildingEncryptedTxBatch == "BuildingEncryptedTxBatch"
FillingRemainingSpace == "FillingRemainingSpace"

WithEncryptedTxs == "WithEncryptedTxs"
WithoutEncryptedTxs == "WithoutEncryptedTxs"
\* The mode of a phase that is not BuildingEncryptedTxBatch<Mode>.
NoMode == "NoMode"
\* The null transition selector, NextStateImpl<Transition = ()>.
UnitTransition == "Unit"

Phases ==
    { BuildingDecryptedTxBatch, BuildingProtocolTxBatch,
      BuildingEncryptedTxBatch, FillingRemainingSpace }

Modes == { NoMode, WithEncryptedTxs, WithoutEncryptedTxs }

VARIABLES
    alloc,             \* the live BlockSpaceAllocator<S>: phase, mode, tracker
    fused,             \* TRUE iff the live value is a FusedBlockSpaceAllocator
    ran_out_of_space,  \* the wrapper's flag (FALSE while not fused)
    budget,            \* configured budget of each phase (external input)
    last,              \* the last call: its inputs, its result, the state before
    rejected_seen,     \* history: a try_alloc on this wrapper returned Rejected
    chain,             \* history: the <<phase, mode>> states entered so far
    chosen,            \* history: the transition function taken out of phase 2
    admitted,          \* history: bytes admitted by the chain, all phases
    live               \* the entries of chain whose allocator value is not consumed

alloc_vars ==
    << alloc, fused, ran_out_of_space, budget, last, rejected_seen, chain,
       chosen, admitted, live >>

VARIABLES
    abci_sent,         \* messages sent into the channel, in order (their kinds)
    abci_open,         \* TRUE while the channel's sender is alive
    shell_pc,          \* Shell::run: "recv", "handle", "reply" or "stopped"
    shell_exit,        \* how run ended: "running", "recv_failed", "send_failed", "panic"
    handled,           \* indices (into abci_sent) of the messages received, in order
    replies,           \* indices of the messages replied to, in order
    cur,               \* the handler's call record for the message in hand
    storage            \* Shell.storage: balances, chain id, block height

shell_vars ==
    << abci_sent, abci_open, shell_pc, shell_exit, handled, replies, cur,
       storage >>

vars == << alloc_vars, shell_vars >>

\* ------------------------------------------------------ results
Ok == [ok |-> TRUE, bin_space_left |-> 0]
Rejected(space) == [ok |-> FALSE, bin_space_left |-> space]

\* ------------------------------------------------------ space tracker
\* remaining = capacity - used
remaining(a) == a.capacity - a.used

\* Accept iff used + len <= capacity; on accept used += len; on reject the
\* tracker is unchanged and bin_space_left = capacity - used.
try_admit_NoCheck(a, len) ==
    [self |-> [a EXCEPT !.used = a.used + len], result |-> Ok]

try_admit_NoCount(a, len) ==
    IF a.used + len <= a.capacity
    THEN [self |-> a, result |-> Ok]
    ELSE [self |-> a, result |-> Rejected(remaining(a))]

try_admit_ZeroLeft(a, len) ==
    IF a.used + len <= a.capacity
    THEN [self |-> [a EXCEPT !.used = a.used + len], result |-> Ok]
    ELSE [self |-> a, result |-> Rejected(0)]

try_admit_Rollback(a, len) ==
    IF a.used + len <= a.capacity
    THEN [self |-> [a EXCEPT !.used = a.used + len], result |-> Ok]
    ELSE [self |-> [a EXCEPT !.used = 0], result |-> Rejected(remaining(a))]

try_admit(a, len) ==
    IF a.used + len <= a.capacity
    THEN [self |-> [a EXCEPT !.used = a.used + len], result |-> Ok]
    ELSE [self |-> a, result |-> Rejected(remaining(a))]

\* ------------------------------------------------------ modes
\* WithEncryptedTxs: "Allow block proposals to include encrypted txs."
\* WithoutEncryptedTxs: "Prohibit block proposals from including encrypted txs."
AllowsEncryptedTxs_Always(mode) == TRUE

AllowsEncryptedTxs(mode) == mode # WithoutEncryptedTxs

\* ------------------------------------------------------ plain allocator
\* TryAlloc for BlockSpaceAllocator<S>: delegates to the tracker with the byte
\* length of the transaction; the WithoutEncryptedTxs mode admits nothing.
try_alloc(a, len) ==
    IF a.phase = BuildingEncryptedTxBatch /\ ~AllowsEncryptedTxs(a.mode)
    THEN [self |-> a, result |-> Rejected(remaining(a))]
    ELSE try_admit(a, len)

\* The state DAG of the module docs: the phase and mode a transition leads to.
NextPhase_Skip(phase, T) ==
    CASE phase = BuildingDecryptedTxBatch /\ T = UnitTransition ->
            [phase |-> BuildingEncryptedTxBatch, mode |-> WithEncryptedTxs]
      [] phase = BuildingProtocolTxBatch /\ T = WithEncryptedTxs ->
            [phase |-> BuildingEncryptedTxBatch, mode |-> WithEncryptedTxs]
      [] phase = BuildingProtocolTxBatch /\ T = WithoutEncryptedTxs ->
            [phase |-> BuildingEncryptedTxBatch, mode |-> WithoutEncryptedTxs]
      [] phase = BuildingEncryptedTxBatch /\ T = UnitTransition ->
            [phase |-> FillingRemainingSpace, mode |-> NoMode]

NextPhase(phase, T) ==
    CASE phase = BuildingDecryptedTxBatch /\ T = UnitTransition ->
            [phase |-> BuildingProtocolTxBatch, mode |-> NoMode]
      [] phase = BuildingProtocolTxBatch /\ T = WithEncryptedTxs ->
            [phase |-> BuildingEncryptedTxBatch, mode |-> WithEncryptedTxs]
      [] phase = BuildingProtocolTxBatch /\ T = WithoutEncryptedTxs ->
            [phase |-> BuildingEncryptedTxBatch, mode |-> WithoutEncryptedTxs]
      [] phase = BuildingEncryptedTxBatch /\ T = UnitTransition ->
            [phase |-> FillingRemainingSpace, mode |-> NoMode]

\* Whether BlockSpaceAllocator<phase> implements NextStateImpl<T>.
HasNextStateImpl_NoExitFromEncrypted(phase, T) ==
    \/ phase = BuildingDecryptedTxBatch /\ T = UnitTransition
    \/ phase = BuildingProtocolTxBatch /\ T \in { WithEncryptedTxs, WithoutEncryptedTxs }

HasNextStateImpl(phase, T) ==
    \/ phase = BuildingDecryptedTxBatch /\ T = UnitTransition
    \/ phase = BuildingProtocolTxBatch /\ T \in { WithEncryptedTxs, WithoutEncryptedTxs }
    \/ phase = BuildingEncryptedTxBatch /\ T = UnitTransition

\* NextStateImpl<T> for BlockSpaceAllocator<S>: the new allocator starts with
\* nothing used and with the next phase's configured budget plus what the
\* phase just left did not use.
next_state_impl_NoCarry(a, T, b) ==
    [ phase |-> NextPhase(a.phase, T).phase,
      mode |-> NextPhase(a.phase, T).mode,
      capacity |-> b[NextPhase(a.phase, T).phase],
      used |-> 0 ]

next_state_impl(a, T, b) ==
    [ phase |-> NextPhase(a.phase, T).phase,
      mode |-> NextPhase(a.phase, T).mode,
      capacity |-> b[NextPhase(a.phase, T).phase] + remaining(a),
      used |-> 0 ]

\* ------------------------------------------------------ fused allocator
\* A fused value is [alloc |-> BlockSpaceAllocator, ran_out_of_space |-> bool].
fuse_Eager(a) == [alloc |-> a, ran_out_of_space |-> (remaining(a) = 0)]

fuse(a) == [alloc |-> a, ran_out_of_space |-> FALSE]

has_run_out_of_space(f) == f.ran_out_of_space

Fused_try_alloc_NoShortCircuit(f, len) ==
    LET r == try_alloc(f.alloc, len)
    IN  [ self |-> [ alloc |-> r.self,
                     ran_out_of_space |->
                         IF r.result.ok THEN f.ran_out_of_space ELSE TRUE ],
          result |-> r.result ]

Fused_try_alloc_Synthesized(f, len) ==
    IF f.ran_out_of_space
    THEN [self |-> f, result |-> Rejected(0)]
    ELSE LET r == try_alloc(f.alloc, len)
         IN  [ self |-> [ alloc |-> r.self,
                          ran_out_of_space |->
                              IF r.result.ok THEN f.ran_out_of_space ELSE TRUE ],
               result |-> IF r.result.ok THEN r.result ELSE Rejected(0) ]

Fused_try_alloc_NotForwarded(f, len) ==
    IF f.ran_out_of_space
    THEN [self |-> f, result |-> Rejected(0)]
    ELSE LET r == try_alloc(f.alloc, len)
         IN  [ self |-> [ alloc |-> f.alloc,
                          ran_out_of_space |->
                              IF r.result.ok THEN f.ran_out_of_space ELSE TRUE ],
               result |-> r.result ]

Fused_try_alloc_FlagFromLastResult(f, len) ==
    LET r == try_alloc(f.alloc, len)
    IN  [ self |-> [alloc |-> r.self, ran_out_of_space |-> ~r.result.ok],
          result |-> IF f.ran_out_of_space /\ ~r.result.ok
                     THEN Rejected(0) ELSE r.result ]

Fused_try_alloc(f, len) ==
    IF f.ran_out_of_space
    THEN [self |-> f, result |-> Rejected(0)]
    ELSE LET r == try_alloc(f.alloc, len)
         IN  [ self |-> [ alloc |-> r.self,
                          ran_out_of_space |->
                              IF r.result.ok THEN f.ran_out_of_space ELSE TRUE ],
               result |-> r.result ]

\* NextStateImpl<T> for FusedBlockSpaceAllocator<S>: self.alloc.next_state_impl()
Fused_next_state_impl_DropsRemainder(f, T, b) ==
    IF f.ran_out_of_space
    THEN next_state_impl_NoCarry(f.alloc, T, b)
    ELSE next_state_impl(f.alloc, T, b)

Fused_next_state_impl(f, T, b) == next_state_impl(f.alloc, T, b)

\* A transition takes its receiver by value (fn next_state_impl(self)): the
\* value it is called on is consumed.
consume_Borrowed(l, i) == l

consume(l, i) == l \ {i}

\* The transition function selected by each convenience trait.
next_state_without_encrypted_txs_Selector_Swapped == WithEncryptedTxs

next_state_Selector == UnitTransition
next_state_with_encrypted_txs_Selector == WithEncryptedTxs
next_state_without_encrypted_txs_Selector == WithoutEncryptedTxs

\* ------------------------------------------------------ shell (anoma-node)
\* Balances given to the two genesis accounts by Shell::new.
InitialValidatorBalance == 10000
InitialBasicBalance == 100

Addresses == { "va", "ba" }

MsgKinds ==
    { "GetInfo", "InitChain", "MempoolValidate", "BeginBlock", "ApplyTx",
      "EndBlock", "CommitBlock" }

\* Shell::new: the storage with the balances of the accounts va and ba.
Shell_new ==
    [ balances |-> [a \in Addresses |->
                      IF a = "va" THEN InitialValidatorBalance
                                  ELSE InitialBasicBalance],
      chain_id |-> "unset",
      height |-> 0 ]

\* storage.transfer(src, dest, amount): a Result; an amount the source does
\* not hold is a storage error and moves nothing.
storage_transfer(st, src, dest, amount) ==
    IF st.balances[src] >= amount
    THEN [ ok |-> TRUE,
           storage |->
               [st EXCEPT !.balances =
                   [a \in Addresses |->
                       st.balances[a]
                         - (IF a = src THEN amount ELSE 0)
                         + (IF a = dest THEN amount ELSE 0)]] ]
    ELSE [ok |-> FALSE, storage |-> st]

\* What a transaction does when it is applied: whether its bytes decode, how
\* its code runs ("transfer": it calls the transfer host function once;
\* "no_transfer": it ends without calling it; "run_error": the runner fails),
\* the transfer it asks for, whether storage finds the accounts' validity
\* predicates, and what the two predicates answer.
NoTx ==
    [ decodes |-> FALSE, run |-> "run_error", src |-> "va", dest |-> "va",
      amount |-> 0, vp_found |-> FALSE, src_accept |-> FALSE,
      dest_accept |-> FALSE ]

Txs ==
    { NoTx }
    \cup { [NoTx EXCEPT !.decodes = TRUE, !.run = r] :
              r \in { "run_error", "no_transfer" } }
    \cup { [ decodes |-> TRUE, run |-> "transfer", src |-> s, dest |-> d,
             amount |-> n, vp_found |-> FALSE, src_accept |-> FALSE,
             dest_accept |-> FALSE ] :
              s \in Addresses, d \in Addresses, n \in { 60 } }
    \cup { [ decodes |-> TRUE, run |-> "transfer", src |-> s, dest |-> d,
             amount |-> n, vp_found |-> TRUE, src_accept |-> sa,
             dest_accept |-> da ] :
              s \in Addresses, d \in Addresses, n \in { 60, 20000 },
              sa \in BOOLEAN, da \in BOOLEAN }

\* Shell::mempool_validate: Ok iff the bytes decode.
mempool_validate(tx) == IF tx.decodes THEN "Ok" ELSE "Err"

\* Shell::apply_tx. result is "Ok", "Err" or "panic" (an unwrap on an error).
apply_tx_EitherAccepts(st, tx) ==
    IF ~tx.decodes
    THEN [storage |-> st, result |-> "Err", vps_ran |-> FALSE, transfer_called |-> FALSE]
    ELSE IF tx.run # "transfer"
    THEN [storage |-> st, result |-> "panic", vps_ran |-> FALSE, transfer_called |-> FALSE]
    ELSE IF ~tx.vp_found
    THEN [storage |-> st, result |-> "Err", vps_ran |-> FALSE, transfer_called |-> FALSE]
    ELSE IF tx.src_accept \/ tx.dest_accept
    THEN LET t == storage_transfer(st, tx.src, tx.dest, tx.amount)
         IN  [ storage |-> t.storage, result |-> IF t.ok THEN "Ok" ELSE "Err",
               vps_ran |-> TRUE, transfer_called |-> TRUE ]
    ELSE [storage |-> st, result |-> "Ok", vps_ran |-> TRUE, transfer_called |-> FALSE]

apply_tx(st, tx) ==
    IF ~tx.decodes
    THEN [storage |-> st, result |-> "Err", vps_ran |-> FALSE, transfer_called |-> FALSE]
    ELSE IF tx.run # "transfer"
    THEN [storage |-> st, result |-> "panic", vps_ran |-> FALSE, transfer_called |-> FALSE]
    ELSE IF ~tx.vp_found
    THEN [storage |-> st, result |-> "Err", vps_ran |-> FALSE, transfer_called |-> FALSE]
    ELSE IF tx.src_accept /\ tx.dest_accept
    THEN LET t == storage_transfer(st, tx.src, tx.dest, tx.amount)
         IN  [ storage |-> t.storage, result |-> IF t.ok THEN "Ok" ELSE "Err",
               vps_ran |-> TRUE, transfer_called |-> TRUE ]
    ELSE [storage |-> st, result |-> "Ok", vps_ran |-> TRUE, transfer_called |-> FALSE]

\* The handler's call record: the message kind, the transaction handled (if
\* any), what the handler returned and the storage it started from.
NoHandlerCall ==
    [ kind |-> "none", tx |-> NoTx, result |-> "none", vps_ran |-> FALSE,
      transfer_called |-> FALSE, pre |-> Shell_new ]

HandlerCall(kind, tx, result, vps_ran, transfer_called) ==
    [ kind |-> kind, tx |-> tx, result |-> result, vps_ran |-> vps_ran,
      transfer_called |-> transfer_called, pre |-> storage ]

\* The shell as run() builds it: an empty channel and Shell::new's storage.
ShellIdle ==
    /\ abci_sent = << >>
    /\ abci_open = TRUE
    /\ shell_pc = "recv"
    /\ shell_exit = "running"
    /\ handled = << >>
    /\ replies = << >>
    /\ cur = NoHandlerCall
    /\ storage = Shell_new

\* ------------------------------------------------------ state machine
NoCall ==
    [ op |-> "new", len |-> 0, result |-> Ok, flag |-> FALSE,
      pre |-> [phase |-> NoMode, mode |-> NoMode, capacity |-> 0, used |-> 0],
      pre_fused |-> FALSE, pre_ran_out |-> FALSE, pre_rejected |-> FALSE ]

Call(op, len, result, flag) ==
    [ op |-> op, len |-> len, result |-> result, flag |-> flag,
      pre |-> alloc, pre_fused |-> fused, pre_ran_out |-> ran_out_of_space,
      pre_rejected |-> rejected_seen ]

\* BlockSpaceAllocator<BuildingDecryptedTxBatch> as constructed for a round.
Init ==
    /\ budget \in [Phases -> 0..MaxBudget]
    /\ alloc = [ phase |-> BuildingDecryptedTxBatch, mode |-> NoMode,
                 capacity |-> budget[BuildingDecryptedTxBatch], used |-> 0 ]
    /\ fused = FALSE
    /\ ran_out_of_space = FALSE
    /\ last = NoCall
    /\ rejected_seen = FALSE
    /\ chain = << <<BuildingDecryptedTxBatch, NoMode>> >>
    /\ chosen = "none"
    /\ admitted = 0
    /\ live = {1}
    /\ ShellIdle

\* alloc.fuse()
Fuse ==
    /\ ~fused
    /\ LET f == fuse(alloc)
       IN  /\ alloc' = f.alloc
           /\ fused' = TRUE
           /\ ran_out_of_space' = f.ran_out_of_space
    /\ last' = Call("fuse", 0, Ok, FALSE)
    /\ rejected_seen' = FALSE
    /\ UNCHANGED << budget, chain, chosen, admitted, live >>
    /\ UNCHANGED shell_vars

\* alloc.try_alloc(tx) on a plain allocator
TryAlloc ==
    /\ ~fused
    /\ \E len \in 0..MaxTxLen :
        LET r == try_alloc(alloc, len)
        IN  /\ alloc' = r.self
            /\ last' = Call("try_alloc", len, r.result, FALSE)
            /\ admitted' = admitted + (IF r.result.ok THEN len ELSE 0)
    /\ UNCHANGED << fused, ran_out_of_space, budget, rejected_seen, chain, chosen,
                    live >>
    /\ UNCHANGED shell_vars

\* fused.try_alloc(tx)
FusedTryAlloc ==
    /\ fused
    /\ \E len \in 0..MaxTxLen :
        LET r == Fused_try_alloc(
                     [alloc |-> alloc, ran_out_of_space |-> ran_out_of_space], len)
        IN  /\ alloc' = r.self.alloc
            /\ ran_out_of_space' = r.self.ran_out_of_space
            /\ last' = Call("fused_try_alloc", len, r.result, FALSE)
            /\ rejected_seen' = (rejected_seen \/ ~r.result.ok)
            /\ admitted' = admitted + (IF r.result.ok THEN len ELSE 0)
    /\ UNCHANGED << fused, budget, chain, chosen, live >>
    /\ UNCHANGED shell_vars

\* fused.has_run_out_of_space()
HasRunOutOfSpace ==
    /\ fused
    /\ last' = Call("has_run_out_of_space", 0, Ok,
                    has_run_out_of_space(
                        [alloc |-> alloc, ran_out_of_space |-> ran_out_of_space]))
    /\ UNCHANGED << alloc, fused, ran_out_of_space, budget, rejected_seen, chain,
                    chosen, admitted, live >>
    /\ UNCHANGED shell_vars

\* The transition T taken on the live value, fused or not; the value is
\* consumed and the next phase's plain allocator becomes the live value.
Transition(op, T) ==
    /\ LET next == IF fused
                   THEN Fused_next_state_impl(
                            [alloc |-> alloc, ran_out_of_space |-> ran_out_of_space],
                            T, budget)
                   ELSE next_state_impl(alloc, T, budget)
       IN  /\ alloc' = next
           /\ chain' = Append(chain, <<next.phase, next.mode>>)
    /\ live' = consume(live, Len(chain)) \cup {Len(chain) + 1}
    /\ fused' = FALSE
    /\ ran_out_of_space' = FALSE
    /\ rejected_seen' = FALSE
    /\ last' = Call(op, 0, Ok, FALSE)
    /\ chosen' = IF alloc.phase = BuildingProtocolTxBatch THEN op ELSE chosen
    /\ UNCHANGED << budget, admitted >>
    /\ UNCHANGED shell_vars

\* x.next_state(), for a phase that implements NextStateImpl<()>
NextState ==
    /\ HasNextStateImpl(alloc.phase, next_state_Selector)
    /\ Transition("next_state", next_state_Selector)

\* x.next_state_with_encrypted_txs(), for NextStateImpl<WithEncryptedTxs>
NextStateWithEncryptedTxs ==
    /\ HasNextStateImpl(alloc.phase, WithEncryptedTxs)
    /\ Transition("next_state_with_encrypted_txs",
                  next_state_with_encrypted_txs_Selector)

\* x.next_state_without_encrypted_txs(), for NextStateImpl<WithoutEncryptedTxs>
NextStateWithoutEncryptedTxs ==
    /\ HasNextStateImpl(alloc.phase, WithoutEncryptedTxs)
    /\ Transition("next_state_without_encrypted_txs",
                  next_state_without_encrypted_txs_Selector)

Next ==
    \/ Fuse
    \/ TryAlloc
    \/ FusedTryAlloc
    \/ HasRunOutOfSpace
    \/ NextState
    \/ NextStateWithEncryptedTxs
    \/ NextStateWithoutEncryptedTxs

Spec == Init /\ [][Next]_vars

TypeOK ==
    /\ alloc.phase \in Phases
    /\ alloc.mode \in Modes
    /\ alloc.capacity \in Nat
    /\ alloc.used \in Nat
    /\ fused \in BOOLEAN
    /\ ran_out_of_space \in BOOLEAN
    /\ rejected_seen \in BOOLEAN

\* ------------------------------------------------------ shell state machine
\* The consensus thread (tendermint::run, holding the sender) sends a message.
AbciSend ==
    /\ abci_open
    /\ Len(abci_sent) < MaxMsgs
    /\ \E k \in MsgKinds : abci_sent' = Append(abci_sent, k)
    /\ UNCHANGED << abci_open, shell_pc, shell_exit, handled, replies, cur, storage >>
    /\ UNCHANGED alloc_vars

\* The consensus thread ends and drops the sender.
AbciDrop ==
    /\ abci_open
    /\ abci_open' = FALSE
    /\ UNCHANGED << abci_sent, shell_pc, shell_exit, handled, replies, cur, storage >>
    /\ UNCHANGED alloc_vars

\* let msg = self.abci.recv().map_err(..)?  -- the oldest pending message; an
\* error (hence run returns Err) once the channel is empty and the sender gone.
Recv ==
    /\ shell_pc = "recv"
    /\ IF Len(handled) < Len(abci_sent)
       THEN /\ handled' = Append(handled, Len(handled) + 1)
            /\ shell_pc' = "handle"
            /\ UNCHANGED shell_exit
       ELSE /\ ~abci_open
            /\ shell_pc' = "stopped"
            /\ shell_exit' = "recv_failed"
            /\ UNCHANGED handled
    /\ UNCHANGED << abci_sent, abci_open, replies, cur, storage >>
    /\ UNCHANGED alloc_vars

\* The kind of the message in hand.
CurKind == abci_sent[handled[Len(handled)]]

\* A handler that returned: its result is to be sent on the reply channel.
Returned(call, st) ==
    /\ cur' = call
    /\ storage' = st
    /\ shell_pc' = "reply"
    /\ UNCHANGED << abci_sent, abci_open, shell_exit, handled, replies >>
    /\ UNCHANGED alloc_vars

\* A handler that panicked: run unwinds, nothing is sent.
Panicked(call) ==
    /\ cur' = call
    /\ shell_pc' = "stopped"
    /\ shell_exit' = "panic"
    /\ UNCHANGED << abci_sent, abci_open, handled, replies, storage >>
    /\ UNCHANGED alloc_vars

\* AbciMsg::GetInfo => self.last_state()
HandleGetInfo ==
    /\ shell_pc = "handle" /\ CurKind = "GetInfo"
    /\ Returned(HandlerCall("GetInfo", NoTx, "Ok", FALSE, FALSE), storage)

\* AbciMsg::InitChain => self.init_chain(chain_id)
HandleInitChain ==
    /\ shell_pc = "handle" /\ CurKind = "InitChain"
    /\ Returned(HandlerCall("InitChain", NoTx, "Ok", FALSE, FALSE),
                [storage EXCEPT !.chain_id = "set"])

\* AbciMsg::MempoolValidate => self.mempool_validate(&tx, type)
HandleMempoolValidate ==
    /\ shell_pc = "handle" /\ CurKind = "MempoolValidate"
    /\ \E tx \in { NoTx, [NoTx EXCEPT !.decodes = TRUE] } :
          Returned(HandlerCall("MempoolValidate", tx, mempool_validate(tx),
                               FALSE, FALSE), storage)

\* AbciMsg::BeginBlock => self.begin_block(hash, height)
HandleBeginBlock ==
    /\ shell_pc = "handle" /\ CurKind = "BeginBlock"
    /\ Returned(HandlerCall("BeginBlock", NoTx, "Ok", FALSE, FALSE),
                [storage EXCEPT !.height = storage.height + 1])

\* AbciMsg::ApplyTx => self.apply_tx(&tx)
HandleApplyTx ==
    /\ shell_pc = "handle" /\ CurKind = "ApplyTx"
    /\ \E tx \in Txs :
          LET r == apply_tx(storage, tx)
              call == HandlerCall("ApplyTx", tx, r.result, r.vps_ran,
                                  r.transfer_called)
          IN  IF r.result = "panic"
              THEN Panicked(call)
              ELSE Returned(call, r.storage)

\* AbciMsg::EndBlock => self.end_block(height)
HandleEndBlock ==
    /\ shell_pc = "handle" /\ CurKind = "EndBlock"
    /\ Returned(HandlerCall("EndBlock", NoTx, "Ok", FALSE, FALSE), storage)

\* AbciMsg::CommitBlock => self.commit()
HandleCommitBlock ==
    /\ shell_pc = "handle" /\ CurKind = "CommitBlock"
    /\ Returned(HandlerCall("CommitBlock", NoTx, "Ok", FALSE, FALSE), storage)

\* reply.send(result).map_err(..)?  -- fails iff the message's reply receiver
\* was dropped, and then run returns Err.
Reply ==
    /\ shell_pc = "reply"
    /\ \E receiver_alive \in BOOLEAN :
          IF receiver_alive
          THEN /\ replies' = Append(replies, handled[Len(handled)])
               /\ shell_pc' = "recv"
               /\ UNCHANGED shell_exit
          ELSE /\ shell_pc' = "stopped"
               /\ shell_exit' = "send_failed"
               /\ UNCHANGED replies
    /\ UNCHANGED << abci_sent, abci_open, handled, cur, storage >>
    /\ UNCHANGED alloc_vars

ShellNext ==
    \/ AbciSend
    \/ AbciDrop
    \/ Recv
    \/ HandleGetInfo
    \/ HandleInitChain
    \/ HandleMempoolValidate
    \/ HandleBeginBlock
    \/ HandleApplyTx
    \/ HandleEndBlock
    \/ HandleCommitBlock
    \/ Reply

\* The allocator chain is left as constructed (with empty budgets).
ShellInit ==
    /\ Init
    /\ budget = [p \in Phases |-> 0]

ShellSpec == ShellInit /\ [][ShellNext]_vars

\* ------------------------------------------------------ claims
TryAllocOps == { "try_alloc", "fused_try_alloc" }

TransitionOps ==
    { "next_state", "next_state_with_encrypted_txs",
      "next_state_without_encrypted_txs" }

\* The candidate of the last call fits the tracker as it was before the call.
LastFits == last.pre.used + last.len <= last.pre.capacity

\* C1: once a try_alloc on a fused allocator has returned Rejected, every
\* later try_alloc on that same fused value returns Rejected with
\* bin_space_left = 0, whatever the candidate's length.
C1_StickyExhaustion ==
    (last.op = "fused_try_alloc" /\ last.pre_rejected)
        => last.result = Rejected(0)

\* A later call whose non-empty candidate would still fit the inner tracker.
C1_Witness ==
    /\ last.op = "fused_try_alloc"
    /\ last.pre_rejected
    /\ last.len > 0
    /\ LastFits
    /\ last.pre.mode # WithoutEncryptedTxs
    /\ last.result = Rejected(0)

\* C2: the fused try_alloc that causes exhaustion (the first one the inner
\* allocator rejects) returns the inner allocator's own rejection, whose
\* bin_space_left is capacity - used of the inner tracker at that moment, and
\* the ran_out_of_space flag is true once the call has returned.
C2_FirstRejectionPassedThrough ==
    (last.op = "fused_try_alloc" /\ ~last.pre_rejected /\ ~last.result.ok)
        => /\ last.result = try_alloc(last.pre, last.len).result
           /\ last.result.bin_space_left = last.pre.capacity - last.pre.used
           /\ ran_out_of_space
           /\ has_run_out_of_space(
                  [alloc |-> alloc, ran_out_of_space |-> ran_out_of_space])

\* The exhausting call reports a non-zero remaining space.
C2_Witness ==
    /\ last.op = "fused_try_alloc"
    /\ ~last.pre_rejected
    /\ ~last.result.ok
    /\ last.result.bin_space_left > 0
    /\ ran_out_of_space

\* C3: a try_alloc on a fused allocator whose flag is already set leaves the
\* inner allocator (capacity and used) exactly as it was, for every length.
C3_ExhaustedLeavesInnerAlone ==
    (last.op = "fused_try_alloc" /\ last.pre_ran_out)
        => /\ alloc.capacity = last.pre.capacity
           /\ alloc.used = last.pre.used
           /\ alloc = last.pre

\* An exhausted wrapper is offered a non-empty candidate the tracker could hold.
C3_Witness ==
    /\ last.op = "fused_try_alloc"
    /\ last.pre_ran_out
    /\ last.len > 0
    /\ LastFits
    /\ last.pre.mode # WithoutEncryptedTxs
    /\ alloc.used = last.pre.used

\* C4: in every reachable state of every phase's tracker, 0 <= used <= capacity.
C4_BudgetInvariant ==
    /\ 0 <= alloc.used
    /\ alloc.used <= alloc.capacity

\* The terminal phase's tracker is full after admissions and a rejection.
C4_Witness ==
    /\ alloc.phase = FillingRemainingSpace
    /\ alloc.used = alloc.capacity
    /\ alloc.used > 0
    /\ last.op \in TryAllocOps
    /\ ~last.result.ok

\* C5 as stated: in any phase a plain try_alloc succeeds iff used + len <=
\* capacity, and on success used grows by len and capacity is unchanged.
C5_AdmissionRule_AnyPhase ==
    last.op = "try_alloc"
        => /\ last.result.ok <=> LastFits
           /\ last.result.ok
                => /\ alloc.used = last.pre.used + last.len
                   /\ alloc.capacity = last.pre.capacity

\* C5 (amended): a plain try_alloc succeeds iff used + len <= capacity and the
\* allocator is not the encrypted-batch allocator in the WithoutEncryptedTxs
\* mode (which admits nothing); on success used grows by exactly len and
\* capacity is unchanged.
C5_AdmissionRule ==
    last.op = "try_alloc"
        => /\ last.result.ok
                <=> (LastFits /\ last.pre.mode # WithoutEncryptedTxs)
           /\ last.result.ok
                => /\ alloc.used = last.pre.used + last.len
                   /\ alloc.capacity = last.pre.capacity
                   /\ alloc.phase = last.pre.phase
                   /\ alloc.mode = last.pre.mode

\* A non-empty candidate is admitted into a partly used tracker.
C5_Witness ==
    /\ last.op = "try_alloc"
    /\ last.result.ok
    /\ last.len > 0
    /\ last.pre.used > 0
    /\ alloc.used = last.pre.used + last.len

\* C6: a plain try_alloc given a candidate with used + len > capacity returns
\* Rejected with bin_space_left = capacity - used, and leaves the tracker as
\* it was.
C6_RejectionRule ==
    (last.op = "try_alloc" /\ ~LastFits)
        => /\ ~last.result.ok
           /\ last.result.bin_space_left = last.pre.capacity - last.pre.used
           /\ alloc = last.pre

\* A candidate is rejected while some, but not enough, space is left.
C6_Witness ==
    /\ last.op = "try_alloc"
    /\ ~LastFits
    /\ ~last.result.ok
    /\ last.pre.used > 0
    /\ last.result.bin_space_left > 0

\* C7: every transition yields an allocator with used = 0 and capacity equal
\* to the new phase's configured budget plus capacity - used of the phase left.
C7_CarryForward ==
    last.op \in TransitionOps
        => /\ alloc.used = 0
           /\ alloc.capacity
                = budget[alloc.phase] + (last.pre.capacity - last.pre.used)

\* A partly used phase-2 tracker hands its remainder to the encrypted phase.
C7_Witness ==
    /\ last.op = "next_state_without_encrypted_txs"
    /\ last.pre.used > 0
    /\ last.pre.capacity - last.pre.used > 0
    /\ alloc.phase = BuildingEncryptedTxBatch
    /\ alloc.capacity > budget[BuildingEncryptedTxBatch]

\* The documented order of the states, for one mode of the third state.
PhaseOrder(m) ==
    << <<BuildingDecryptedTxBatch, NoMode>>,
       <<BuildingProtocolTxBatch, NoMode>>,
       <<BuildingEncryptedTxBatch, m>>,
       <<FillingRemainingSpace, NoMode>> >>

\* C8: the states a chain has entered form a prefix of decrypted, protocol,
\* encrypted (in one mode), remaining; the live allocator is in the last of
\* them; and nothing leaves the terminal state.
C8_PhaseOrdering ==
    /\ \E m \in { WithEncryptedTxs, WithoutEncryptedTxs } :
          /\ Len(chain) <= Len(PhaseOrder(m))
          /\ \A i \in 1..Len(chain) : chain[i] = PhaseOrder(m)[i]
    /\ chain[Len(chain)] = <<alloc.phase, alloc.mode>>
    /\ alloc.phase = FillingRemainingSpace
          => \A T \in { UnitTransition, WithEncryptedTxs, WithoutEncryptedTxs } :
                ~HasNextStateImpl(alloc.phase, T)

\* A chain has run through all four states.
C8_Witness ==
    /\ Len(chain) = 4
    /\ alloc.phase = FillingRemainingSpace
    /\ last.op \in TryAllocOps

\* C9: through an encrypted-batch allocator in the WithoutEncryptedTxs mode no
\* transaction is ever admitted, whatever its length and however much budget
\* is left.
C9_ModePermanence ==
    /\ (alloc.phase = BuildingEncryptedTxBatch /\ alloc.mode = WithoutEncryptedTxs)
          => alloc.used = 0
    /\ (/\ last.op \in TryAllocOps
        /\ last.pre.phase = BuildingEncryptedTxBatch
        /\ last.pre.mode = WithoutEncryptedTxs)
          => /\ ~last.result.ok
             /\ alloc = last.pre

\* A candidate that would fit is offered in the WithoutEncryptedTxs mode.
C9_Witness ==
    /\ last.op \in TryAllocOps
    /\ last.pre.phase = BuildingEncryptedTxBatch
    /\ last.pre.mode = WithoutEncryptedTxs
    /\ last.len > 0
    /\ LastFits
    /\ ~last.result.ok

\* The number of entries into the encrypted-batch state.
EncryptedEntries ==
    Cardinality({ i \in 1..Len(chain) : chain[i][1] = BuildingEncryptedTxBatch })

\* C10: the mode of the encrypted-batch state is the one selected by the
\* transition function taken out of BuildingProtocolTxBatch, it is the same
\* in every state of that phase, and the phase is entered at most once.
C10_ModeChosenOnce ==
    /\ alloc.phase = BuildingEncryptedTxBatch
          => \/ /\ chosen = "next_state_with_encrypted_txs"
                /\ alloc.mode = WithEncryptedTxs
             \/ /\ chosen = "next_state_without_encrypted_txs"
                /\ alloc.mode = WithoutEncryptedTxs
    /\ (last.pre.phase = BuildingEncryptedTxBatch
        /\ alloc.phase = BuildingEncryptedTxBatch)
          => alloc.mode = last.pre.mode
    /\ alloc.phase # BuildingEncryptedTxBatch /\ Len(chain) < 3
          => chosen = "none"
    /\ EncryptedEntries <= 1

\* Calls have been made in the WithoutEncryptedTxs mode after it was selected.
C10_Witness ==
    /\ alloc.phase = BuildingEncryptedTxBatch
    /\ alloc.mode = WithoutEncryptedTxs
    /\ chosen = "next_state_without_encrypted_txs"
    /\ last.op = "fused_try_alloc"
    /\ last.pre.phase = BuildingEncryptedTxBatch

\* The transition selector of the convenience function named op.
SelectorOf(op) ==
    CASE op = "next_state" -> UnitTransition
      [] op = "next_state_with_encrypted_txs" -> WithEncryptedTxs
      [] op = "next_state_without_encrypted_txs" -> WithoutEncryptedTxs

\* C11: a transition taken on a fused allocator yields exactly the allocator
\* the same transition on its inner allocator yields (phase, mode, capacity,
\* used), exhausted or not; the result is a plain allocator that carries no
\* flag, and a freshly fused allocator starts with ran_out_of_space = FALSE.
C11_FusedTransitionPassthrough ==
    /\ (last.op \in TransitionOps /\ last.pre_fused)
          => /\ alloc = next_state_impl(last.pre, SelectorOf(last.op), budget)
             /\ ~fused
             /\ ~ran_out_of_space
    /\ last.op = "fuse"
          => /\ fused
             /\ ~ran_out_of_space
             /\ alloc = last.pre

\* An exhausted wrapper with space left in its tracker takes a transition.
C11_Witness ==
    /\ last.op \in TransitionOps
    /\ last.pre_fused
    /\ last.pre_ran_out
    /\ last.pre.capacity - last.pre.used > 0
    /\ last.pre.used > 0
    /\ alloc.capacity = budget[alloc.phase] + (last.pre.capacity - last.pre.used)

\* C12: while no try_alloc on a fused allocator has been rejected, a try_alloc
\* on it returns what the same call on the inner allocator returns, and leaves
\* the inner allocator as that call would.
C12_DelegationBeforeExhaustion ==
    (last.op = "fused_try_alloc" /\ ~last.pre_rejected)
        => /\ last.result = try_alloc(last.pre, last.len).result
           /\ alloc = try_alloc(last.pre, last.len).self
           /\ alloc.capacity = last.pre.capacity

\* A non-empty candidate is admitted through a wrapper that is not exhausted.
C12_Witness ==
    /\ last.op = "fused_try_alloc"
    /\ ~last.pre_rejected
    /\ last.result.ok
    /\ last.len > 0
    /\ last.pre.used > 0
    /\ alloc.used = last.pre.used + last.len

\* The operations that keep the wrapper they are called on.
WrapperOps == { "fused_try_alloc", "has_run_out_of_space" }

\* C13: once the flag of a fused allocator is true it stays true under every
\* operation on that wrapper, and has_run_out_of_space changes neither the
\* flag nor the inner tracker.
C13_FlagSticky ==
    /\ (last.op \in WrapperOps /\ last.pre_ran_out)
          => (fused /\ ran_out_of_space)
    /\ last.op = "has_run_out_of_space"
          => /\ ran_out_of_space = last.pre_ran_out
             /\ alloc = last.pre
             /\ fused

\* An exhausted wrapper is offered an empty candidate and stays exhausted.
C13_Witness ==
    /\ last.op = "fused_try_alloc"
    /\ last.pre_ran_out
    /\ last.len = 0
    /\ last.pre.mode # WithoutEncryptedTxs
    /\ ran_out_of_space

\* C14: in every state of a non-terminal phase the phase's transition can be
\* taken (both of them out of BuildingProtocolTxBatch), whatever the tracker
\* holds and whether or not a wrapper is exhausted; a transition returns the
\* next allocator, never a rejection.
C14_TransitionAlwaysEnabled ==
    /\ alloc.phase \in { BuildingDecryptedTxBatch, BuildingEncryptedTxBatch }
          => ENABLED NextState
    /\ alloc.phase = BuildingProtocolTxBatch
          => /\ ENABLED NextStateWithEncryptedTxs
             /\ ENABLED NextStateWithoutEncryptedTxs
    /\ last.op \in TransitionOps => last.result.ok

\* An exhausted wrapper of the encrypted-batch phase can still move on.
C14_Witness ==
    /\ alloc.phase = BuildingEncryptedTxBatch
    /\ fused
    /\ ran_out_of_space
    /\ alloc.used > 0
    /\ ENABLED NextState

\* C15: a transition consumes the allocator it is taken on: the only live
\* allocator of a chain is the one of the state entered last, so no two
\* allocator values are live at once.
C15_ConsumingTransitions ==
    /\ live = { Len(chain) }
    /\ Cardinality(live) <= 1
    /\ \A i \in 1..(Len(chain) - 1) : i \notin live

\* After all three transitions only the terminal allocator is live.
C15_Witness ==
    /\ Len(chain) = 4
    /\ live = {4}
    /\ last.op \in TransitionOps
    /\ last.pre_fused

\* C16: no try_alloc, accepted or rejected, plain or fused, and no observer
\* call lowers used within one tracker's lifetime.
C16_UsedMonotone ==
    last.op \in (TryAllocOps \cup { "has_run_out_of_space", "fuse" })
        => /\ alloc.used >= last.pre.used
           /\ alloc.capacity = last.pre.capacity

\* A rejection leaves a partly used tracker as it was.
C16_Witness ==
    /\ last.op \in TryAllocOps
    /\ ~last.result.ok
    /\ last.pre.used > 0
    /\ alloc.used = last.pre.used

\* The block capacity of the round: what phase 1 is created with.
BlockCapacity == budget[BuildingDecryptedTxBatch]

RECURSIVE BudgetOf(_)
\* The configured budgets of the states in a history of entered states.
BudgetOf(c) ==
    IF c = << >> THEN 0 ELSE budget[Head(c)[1]] + BudgetOf(Tail(c))

C18_FlagIffRejected ==
    /\ last.op = "has_run_out_of_space" => (last.flag <=> last.pre_rejected)
    /\ fused => (ran_out_of_space <=> rejected_seen)
    /\ last.op = "fuse" => ~ran_out_of_space
    /\ (last.op = "fused_try_alloc" /\ last.result.ok)
          => ran_out_of_space = last.pre_ran_out

\* A wrapper whose tracker is full, but which never rejected, reports false.
C18_Witness ==
    /\ last.op = "has_run_out_of_space"
    /\ ~last.flag
    /\ alloc.used = alloc.capacity
    /\ alloc.used > 0

\* Both validity predicates ran and accepted the transaction in hand.
BothAccept == cur.vps_ran /\ cur.tx.src_accept /\ cur.tx.dest_accept

C20_RunLoop ==
    /\ Len(handled) <= Len(abci_sent)
    /\ \A i \in 1..Len(handled) : handled[i] = i
    /\ Len(replies) <= Len(handled)
    /\ \A i \in 1..Len(replies) : replies[i] = handled[i]
    /\ shell_pc = "recv" => Len(replies) = Len(handled)
    /\ shell_pc \in { "handle", "reply" } => Len(replies) = Len(handled) - 1
    /\ shell_pc # "stopped" => shell_exit = "running"
    /\ shell_pc = "stopped" => shell_exit \in { "recv_failed", "send_failed" }
    /\ shell_exit = "recv_failed" => Len(replies) = Len(handled)
    /\ shell_exit = "send_failed" => Len(replies) = Len(handled) - 1

====
